---------------------------- MODULE Spec2Model ----------------------------
(***************************************************************************)
(* webp-converter: WebPConverter::convert and WebPConverter::convert_to_webp *)
(* (src/src/lib.rs) over a small file system.                              *)
(*                                                                         *)
(* A file name is a sequence of one-character strings.  The character "#"  *)
(* stands for a byte that is not valid UTF-8.  A path is a record          *)
(* [dir, name, kind]: dir is the sequence of directory names below the     *)
(* root it is relative to (source_dir for source entries, output_dir for   *)
(* output files), name its last component and kind what the path names on  *)
(* disk ("file", "dir" or "missing").                                      *)
(***************************************************************************)
EXTENDS Naturals, Sequences, FiniteSets

VARIABLES
    tree,           \* entries that exist under source_dir
    srcExists,      \* source_dir exists
    outDirExists,   \* output_dir exists
    outFiles,       \* files under output_dir: path -> content
    before,         \* output side as it was when the call started
    pc,             \* position of the running call
    call,           \* "none", "convert" or "single": the public entry point called
    result,         \* what the call returned ("none" while running)
    seen,           \* entries the traversal has yielded, in order
    cwd,            \* directory the traversal is listing
    cur,            \* path handed to convert_to_webp
    img,            \* the decoded image: the set holding its source, or {}
    outPath,        \* output_path of convert_to_webp
    verdict,        \* outcome of the filter for the last entry yielded
    log             \* decode, create_dir_all and save attempts, in order

vars == <<tree, srcExists, outDirExists, outFiles, before, pc, call, result,
          seen, cwd, cur, img, outPath, verdict, log>>

---------------------------------------------------------------------------
(* Bounds *)

MaxFiles == 3

MaxPre == 2

---------------------------------------------------------------------------
(* Strings *)

Dot == "."

BadByte == "#"

DotDot == <<".", ".">>

webp == <<"w", "e", "b", "p">>

\* str::to_lowercase on one character
LowerChar(c) ==
    CASE c = "J" -> "j"
      [] c = "P" -> "p"
      [] c = "E" -> "e"
      [] c = "G" -> "g"
      [] c = "N" -> "n"
      [] c = "I" -> "i"
      [] c = "F" -> "f"
      [] OTHER -> c

to_lowercase(s) == [i \in 1..Len(s) |-> LowerChar(s[i])]

\* OsStr::to_str: Some(s) when s is valid UTF-8, None otherwise
to_str(s) == IF \A i \in 1..Len(s) : s[i] # BadByte THEN {s} ELSE {}

\* index of the last "." of s, 0 when there is none
LastDot(s) ==
    LET D == {i \in 1..Len(s) : s[i] = Dot}
    IN  IF D = {} THEN 0 ELSE CHOOSE i \in D : \A j \in D : j <= i

\* rsplit_file_at_dot without the rule for a name that starts with its only "."
rsplit_at_last_dot(file) ==
    LET d == LastDot(file)
    IN  IF file = DotDot THEN <<{file}, {}>>
        ELSE IF d = 0 THEN <<{}, {file}>>
        ELSE <<{SubSeq(file, 1, d - 1)}, {SubSeq(file, d + 1, Len(file))}>>

\* std::path rsplit_file_at_dot: <<before, after>>, each {} (None) or {s}
rsplit_file_at_dot(file) ==
    LET d == LastDot(file)
    IN  IF file = DotDot THEN <<{file}, {}>>
        ELSE IF d = 0 THEN <<{}, {file}>>
        ELSE IF d = 1 THEN <<{file}, {}>>
        ELSE <<{SubSeq(file, 1, d - 1)}, {SubSeq(file, d + 1, Len(file))}>>

\* Path::file_name: None when the path ends in ".."
file_name(p) == IF p.name = DotDot THEN {} ELSE {p.name}

\* Path::extension: before.and(after)
extension(p) ==
    IF file_name(p) = {} THEN {}
    ELSE LET s == rsplit_file_at_dot(p.name)
         IN  IF s[1] = {} THEN {} ELSE s[2]

\* Path::file_stem: before.or(after)
file_stem(p) ==
    IF file_name(p) = {} THEN {}
    ELSE LET s == rsplit_file_at_dot(p.name)
         IN  IF s[1] # {} THEN s[1] ELSE s[2]

\* Path::with_extension: the path cut right after its file stem, then "." and ext
with_extension(p, ext) ==
    IF file_stem(p) = {} THEN p
    ELSE LET stem == CHOOSE s \in file_stem(p) : TRUE
         IN  [p EXCEPT !.name = stem \o <<Dot>> \o ext]

---------------------------------------------------------------------------
(* The file system the calls run on *)

jpg == <<"j", "p", "g">>

jpeg == <<"j", "p", "e", "g">>

png == <<"p", "n", "g">>

gif == <<"g", "i", "f">>

\* the array of line 143
AcceptedExts == {jpg, jpeg, png, gif}

\* names of the subdirectories source_dir may hold; the second one looks like an image
SubDirs == {<<"a">>, <<"b", ".", "g", "i", "f">>}

\* names of the regular files the source tree may hold: two images with one stem,
\* a .webp file, a name whose only "." comes first and a name that is not UTF-8
FileNames ==
    { <<"c", ".", "j", "p", "g">>,
      <<"c", ".", "P", "N", "G">>,
      <<"c", ".", "w", "e", "b", "p">>,
      <<".", "p", "n", "g">>,
      <<"#", ".", "j", "p", "g">> }

File(d, n) == [dir |-> d, name |-> n, kind |-> "file"]

Dir(n) == [dir |-> <<>>, name |-> n, kind |-> "dir"]

\* the entry WalkDir yields for source_dir itself
RootEntry == [dir |-> <<>>, name |-> <<"s">>, kind |-> "dir"]

\* a path that ends in "..": it names a directory and has no file name
ParentPath == [dir |-> <<>>, name |-> DotDot, kind |-> "dir"]

\* a path to an image that does not exist
MissingPath == [dir |-> <<>>, name |-> <<"z", ".", "j", "p", "g">>, kind |-> "missing"]

NoPath == [dir |-> <<>>, name |-> <<"-">>, kind |-> "missing"]

CandFiles == {File(d, n) : d \in {<<>>} \cup {<<s>> : s \in SubDirs}, n \in FileNames}

RECURSIVE SubsetsUpTo(_, _)
SubsetsUpTo(S, k) ==
    IF k = 0 THEN {{}}
    ELSE LET R == SubsetsUpTo(S, k - 1)
         IN  R \cup {r \cup {x} : r \in R, x \in S}

\* a source tree: at most MaxFiles regular files, each in a directory that exists
Trees ==
    LET All == {F \cup {Dir(d) : d \in D} :
                    F \in SubsetsUpTo(CandFiles, MaxFiles), D \in SUBSET SubDirs}
    IN  {T \in All : \A e \in T : e.dir = <<>> \/ Dir(e.dir[1]) \in T}

Range(s) == {s[i] : i \in 1..Len(s)}

\* content of an output file: the image it was encoded from ({} for a file that
\* was there before the call) and whether the write completed
Old == [from |-> {}, complete |-> TRUE]

\* a file that was in output_dir before the call
OldPath == File(<<>>, <<"c", ".", "w", "e", "b", "p">>)

EmptyFiles == [p \in {} |-> Old]

---------------------------------------------------------------------------
(* new: stores the two directory names, no I/O *)

InitCall ==
    /\ pc = "idle"
    /\ call = "none"
    /\ result = "none"
    /\ seen = <<>>
    /\ cwd = <<>>
    /\ cur = NoPath
    /\ img = {}
    /\ outPath = NoPath
    /\ verdict = "none"
    /\ log = <<>>

InitOutput ==
    /\ outDirExists \in BOOLEAN
    /\ outFiles \in IF outDirExists THEN {EmptyFiles, [p \in {OldPath} |-> Old]}
                    ELSE {EmptyFiles}
    /\ before = [dir |-> outDirExists, files |-> outFiles]

Init ==
    /\ srcExists \in BOOLEAN
    /\ tree \in IF srcExists THEN Trees ELSE {{}}
    /\ InitOutput
    /\ InitCall

---------------------------------------------------------------------------
(* convert, lines 136-151 *)

\* the filter without the is_file test
is_entry(e) == e.kind \in {"file", "dir"}

\* entry.file_type().is_file(), line 139
is_file(e) == e.kind = "file"

\* the filter without to_lowercase
has_image_extension_as_written(e) ==
    \E x \in extension(e) : \E s \in to_str(x) : s \in {jpg, jpeg, png, gif}

\* lines 141-143: the extension, as UTF-8, lowercased, is one of the four
has_image_extension(e) ==
    \E x \in extension(e) : \E s \in to_str(x) : to_lowercase(s) \in AcceptedExts

\* the filter of lines 139-143
classify(e) == IF is_file(e) /\ has_image_extension(e) THEN "Accepted" ELSE "Rejected"

\* entries of directory d the traversal has not yielded yet
Remaining(d) == {e \in tree : e.dir = d /\ e \notin Range(seen)}

\* the directory the traversal reads next: the subdirectory it is in while that one
\* has entries left, source_dir otherwise
ListDir == IF cwd # <<>> /\ Remaining(cwd) # {} THEN cwd ELSE <<>>

\* what WalkDir may yield next: source_dir itself first, then depth first, a
\* directory before its contents, the entries of one directory in any order
NextEntries == IF seen = <<>> THEN {RootEntry} ELSE Remaining(ListDir)

Entry(op, src, path, ok) == [op |-> op, src |-> src, path |-> path, ok |-> ok]

\* the caller calls convert()
CallConvert ==
    /\ pc = "idle"
    /\ call' = "convert"
    /\ pc' = "walk"
    /\ UNCHANGED <<tree, srcExists, outDirExists, outFiles, before, result, seen,
                   cwd, cur, img, outPath, verdict, log>>

\* a traversal that drops its errors: a missing source_dir is an empty one
WalkRootMissingIgnored ==
    /\ pc = "walk"
    /\ ~srcExists
    /\ result' = "Ok"
    /\ pc' = "done"
    /\ UNCHANGED <<tree, srcExists, outDirExists, outFiles, before, call, seen,
                   cwd, cur, img, outPath, verdict, log>>

\* lines 137-138: source_dir does not exist, the first item is an Err and `?` returns it
WalkRootMissing ==
    /\ pc = "walk"
    /\ ~srcExists
    /\ result' = "ErrTraversal"
    /\ pc' = "done"
    /\ UNCHANGED <<tree, srcExists, outDirExists, outFiles, before, call, seen,
                   cwd, cur, img, outPath, verdict, log>>

\* lines 137-138: reading below source_dir fails, `?` returns the error
WalkError ==
    /\ pc = "walk"
    /\ srcExists
    /\ seen # <<>>
    /\ result' = "ErrTraversal"
    /\ pc' = "done"
    /\ UNCHANGED <<tree, srcExists, outDirExists, outFiles, before, call, seen,
                   cwd, cur, img, outPath, verdict, log>>

\* lines 137-147: the next entry, filtered; an accepted one goes to convert_to_webp
WalkEntry ==
    /\ pc = "walk"
    /\ srcExists
    /\ \E e \in NextEntries :
        /\ seen' = Append(seen, e)
        /\ cwd' = IF e.kind = "dir" /\ e # RootEntry THEN <<e.name>> ELSE ListDir
        /\ verdict' = classify(e)
        /\ IF classify(e) = "Accepted"
             THEN pc' = "decode" /\ cur' = e
             ELSE pc' = "walk" /\ cur' = cur
    /\ UNCHANGED <<tree, srcExists, outDirExists, outFiles, before, call, result,
                   img, outPath, log>>

\* line 150: the traversal is over
WalkEnd ==
    /\ pc = "walk"
    /\ srcExists
    /\ NextEntries = {}
    /\ result' = "Ok"
    /\ pc' = "done"
    /\ UNCHANGED <<tree, srcExists, outDirExists, outFiles, before, call, seen,
                   cwd, cur, img, outPath, verdict, log>>

---------------------------------------------------------------------------
(* convert_to_webp, lines 203-210 *)

\* Path::new(&self.output_dir).join(file_name): directly in output_dir
join(name) == File(<<>>, name)

\* the output path without with_extension
output_path_as_named(name) == File(<<>>, name)

\* line 206
output_path(name) == with_extension(join(name), webp)

\* a write that leaves a file that exists alone
save_new(files, path, content) ==
    [q \in DOMAIN files \cup {path} |->
        IF q \in DOMAIN files THEN files[q] ELSE content]

\* a file written, created or overwritten, at path
save(files, path, content) ==
    [q \in DOMAIN files \cup {path} |-> IF q = path THEN content ELSE files[q]]

\* paths the caller may hand to convert_to_webp
SinglePaths == tree \cup {ParentPath, MissingPath}

\* the caller calls convert_to_webp(path), with no convert() before it
CallConvertToWebp ==
    /\ pc = "idle"
    /\ \E p \in SinglePaths : cur' = p
    /\ call' = "single"
    /\ pc' = "decode"
    /\ UNCHANGED <<tree, srcExists, outDirExists, outFiles, before, result, seen,
                   cwd, img, outPath, verdict, log>>

\* line 204: image::open succeeds, which takes a regular file; whether the file
\* holds an image is its content, left open here
DecodeOk ==
    /\ pc = "decode"
    /\ cur.kind = "file"
    /\ img' = {cur}
    /\ log' = Append(log, Entry("decode", cur, cur, TRUE))
    /\ pc' = "derive"
    /\ UNCHANGED <<tree, srcExists, outDirExists, outFiles, before, call, result,
                   seen, cwd, cur, outPath, verdict>>

\* a decode failure that is skipped instead of returned
DecodeFailsSkipped ==
    /\ pc = "decode"
    /\ log' = Append(log, [op |-> "decode", src |-> cur, path |-> cur, ok |-> FALSE])
    /\ IF call = "convert"
         THEN pc' = "walk" /\ result' = result
         ELSE pc' = "done" /\ result' = "ErrDecode"
    /\ UNCHANGED <<tree, srcExists, outDirExists, outFiles, before, call, seen,
                   cwd, cur, img, outPath, verdict>>

\* line 204: image::open fails (no such file, a directory, not an image), `?` returns
DecodeFails ==
    /\ pc = "decode"
    /\ log' = Append(log, Entry("decode", cur, cur, FALSE))
    /\ result' = "ErrDecode"
    /\ pc' = "done"
    /\ UNCHANGED <<tree, srcExists, outDirExists, outFiles, before, call, seen,
                   cwd, cur, img, outPath, verdict>>

\* lines 205-206: file_name().unwrap().to_str().unwrap(), then the output path
Derive ==
    /\ pc = "derive"
    /\ IF \E n \in file_name(cur) : to_str(n) # {}
         THEN /\ outPath' = output_path(cur.name)
              /\ pc' = "mkdir"
              /\ result' = result
         ELSE /\ outPath' = outPath
              /\ pc' = "done"
              /\ result' = "panic"
    /\ UNCHANGED <<tree, srcExists, outDirExists, outFiles, before, call, seen,
                   cwd, cur, img, verdict, log>>

\* convert_to_webp without create_dir_all
MkdirSkipped ==
    /\ pc = "mkdir"
    /\ pc' = "encode"
    /\ UNCHANGED <<tree, srcExists, outDirExists, outFiles, before, call, result,
                   seen, cwd, cur, img, outPath, verdict, log>>

\* line 207: create_dir_all(parent) succeeds; the parent is output_dir
MkdirOk ==
    /\ pc = "mkdir"
    /\ outDirExists' = TRUE
    /\ log' = Append(log, Entry("mkdir", cur, outPath, TRUE))
    /\ pc' = "encode"
    /\ UNCHANGED <<tree, srcExists, outFiles, before, call, result, seen, cwd, cur,
                   img, outPath, verdict>>

\* line 207: create_dir_all fails, which it does not for a directory that exists
MkdirFails ==
    /\ pc = "mkdir"
    /\ ~outDirExists
    /\ log' = Append(log, Entry("mkdir", cur, outPath, FALSE))
    /\ result' = "ErrCreateDir"
    /\ pc' = "done"
    /\ UNCHANGED <<tree, srcExists, outDirExists, outFiles, before, call, seen,
                   cwd, cur, img, outPath, verdict>>

\* lines 208-209: the image is written; convert goes on with the traversal
EncodeOk ==
    /\ pc = "encode"
    /\ outDirExists
    /\ outFiles' = save(outFiles, outPath, [from |-> img, complete |-> TRUE])
    /\ log' = Append(log, Entry("write", cur, outPath, TRUE))
    /\ IF call = "convert"
         THEN pc' = "walk" /\ result' = result
         ELSE pc' = "done" /\ result' = "Ok"
    /\ UNCHANGED <<tree, srcExists, outDirExists, before, call, seen, cwd, cur,
                   img, outPath, verdict>>

\* line 208: encoding or writing fails; the file may be left partly written
EncodeFails ==
    /\ pc = "encode"
    /\ outFiles' \in {outFiles} \cup
            (IF outDirExists
               THEN {save(outFiles, outPath, [from |-> img, complete |-> FALSE])}
               ELSE {})
    /\ log' = Append(log, Entry("write", cur, outPath, FALSE))
    /\ result' = "ErrEncode"
    /\ pc' = "done"
    /\ UNCHANGED <<tree, srcExists, outDirExists, before, call, seen, cwd, cur,
                   img, outPath, verdict>>

---------------------------------------------------------------------------

Next ==
    \/ CallConvert
    \/ CallConvertToWebp
    \/ WalkRootMissing
    \/ WalkError
    \/ WalkEntry
    \/ WalkEnd
    \/ DecodeOk
    \/ DecodeFails
    \/ Derive
    \/ MkdirOk
    \/ MkdirFails
    \/ EncodeOk
    \/ EncodeFails

Spec == Init /\ [][Next]_vars

---------------------------------------------------------------------------
(* The filter over every bounded file name: a source tree that holds one    *)
(* regular file, whose name is built from a prefix of at most MaxPre         *)
(* characters, an extension word in every mix of upper and lower case, and   *)
(* an optional last character.                                              *)

UpperChar(c) ==
    CASE c = "j" -> "J"
      [] c = "p" -> "P"
      [] c = "e" -> "E"
      [] c = "g" -> "G"
      [] c = "n" -> "N"
      [] c = "i" -> "I"
      [] c = "f" -> "F"
      [] OTHER -> c

CaseMixes(w) ==
    {[i \in 1..Len(w) |-> IF i \in S THEN UpperChar(w[i]) ELSE w[i]] :
        S \in SUBSET (1..Len(w))}

Prefixes == UNION {[1..n -> {Dot, "x", BadByte}] : n \in 0..MaxPre}

Words == UNION {CaseMixes(w) : w \in AcceptedExts} \cup {<<>>, webp, <<"j", "p">>}

Suffixes == {<<>>, <<Dot>>, <<"x">>, <<BadByte>>}

\* "", "." and ".." are not names of files
ClassifyNames ==
    {p \o w \o x : p \in Prefixes, w \in Words, x \in Suffixes}
        \ {<<>>, <<Dot>>, DotDot}

ClassifyInit ==
    /\ srcExists \in BOOLEAN
    /\ tree \in IF srcExists THEN {{File(<<>>, n)} : n \in ClassifyNames} ELSE {{}}
    /\ InitOutput
    /\ InitCall

ClassifySpec == ClassifyInit /\ [][Next]_vars

---------------------------------------------------------------------------
(* Vocabulary of the properties, stated on names and on the state, apart   *)
(* from the operators the calls are modelled with                          *)

CasePairs ==
    { <<"j", "J">>, <<"p", "P">>, <<"e", "E">>, <<"g", "G">>,
      <<"n", "N">>, <<"i", "I">>, <<"f", "F">> }

SameLetter(a, b) == a = b \/ <<a, b>> \in CasePairs \/ <<b, a>> \in CasePairs

EqualsIgnoringCase(s, t) ==
    Len(s) = Len(t) /\ \A i \in 1..Len(s) : SameLetter(s[i], t[i])

\* the text after the last "." of n
AfterLastDot(n) == SubSeq(n, LastDot(n) + 1, Len(n))

IsImageWord(s) == \E x \in {jpg, jpeg, png, gif} : EqualsIgnoringCase(s, x)

\* n has an extension, text after a last "." that something precedes, and the
\* extension is one of the four
ImageNamed(n) == LastDot(n) > 1 /\ IsImageWord(AfterLastDot(n))

\* n up to and including its last ".", then "webp"
WebpNamed(n) == SubSeq(n, 1, LastDot(n)) \o webp

SourceFiles == {e \in tree : e.kind = "file"}

IsImage(e) == e \in tree /\ e.kind = "file" /\ ImageNamed(e.name)

Images == {e \in SourceFiles : ImageNamed(e.name)}

\* output files the call created or changed
Changed ==
    {p \in DOMAIN outFiles :
        p \notin DOMAIN before.files \/ outFiles[p] # before.files[p]}

Attempts(op) == {i \in DOMAIN log : log[i].op = op}

ConvertReturnedOk == call = "convert" /\ pc = "done" /\ result = "Ok"

\* position of entry e in the traversal
Pos(e) == CHOOSE i \in DOMAIN seen : seen[i] = e

---------------------------------------------------------------------------
---------------------------------------------------------------------------
(* C2: convert() attempts no decode and no write for an entry that is a     *)
(* directory, has no extension or has an extension outside the four, and    *)
(* the output files a run creates or changes are at most as many as the     *)
(* accepted source files.                                                   *)
OnlyImagesTouched ==
    call = "convert" =>
        /\ \A i \in DOMAIN log : IsImage(log[i].src)
        /\ \A p \in Changed : \A f \in outFiles[p].from : IsImage(f)
        /\ Cardinality(Changed) <= Cardinality(Images)

\* a finished run over a directory named like an image, a .webp file, a file
\* with no extension (.png) and an image
OnlyImagesTouchedWitness ==
    /\ ConvertReturnedOk
    /\ Dir(<<"b", ".", "g", "i", "f">>) \in tree
    /\ \E f \in SourceFiles : f.name = <<"c", ".", "w", "e", "b", "p">>
    /\ \E f \in SourceFiles : f.name = <<".", "p", "n", "g">>
    /\ Cardinality(Images) = 1
    /\ Cardinality(Changed) = 1

---------------------------------------------------------------------------
(* C3: convert() stops at the first failure: a failed decode, directory     *)
(* creation or write is the last thing the call attempts and its error is   *)
(* what the call returns, a traversal error ends the call as well, and the  *)
(* call returns Ok only when every entry was traversed and every accepted   *)
(* file was decoded and written without error.                              *)
ErrOf(op) ==
    CASE op = "decode" -> "ErrDecode"
      [] op = "mkdir" -> "ErrCreateDir"
      [] op = "write" -> "ErrEncode"

AbortsOnFirstError ==
    call = "convert" =>
        /\ \A i \in DOMAIN log :
              ~log[i].ok => i = Len(log) /\ pc = "done" /\ result = ErrOf(log[i].op)
        /\ result \in {"ErrTraversal", "ErrDecode", "ErrCreateDir", "ErrEncode"}
              => pc = "done"
        /\ pc = "done" /\ (\A i \in DOMAIN log : log[i].ok) /\ result # "panic"
              => result \in {"Ok", "ErrTraversal"}
        /\ result = "Ok" =>
              /\ tree \subseteq Range(seen)
              /\ \A f \in Images :
                    /\ \E i \in Attempts("decode") : log[i].src = f /\ log[i].ok
                    /\ \E i \in Attempts("write") : log[i].src = f /\ log[i].ok

\* a run that converted one image, then failed to decode the next, with a
\* third image never reached
AbortsOnFirstErrorWitness ==
    /\ call = "convert"
    /\ result = "ErrDecode"
    /\ Len(log) = 4
    /\ \E f \in Images : f \notin Range(seen)

---------------------------------------------------------------------------
(* C4: two accepted source files with the same stem, in different           *)
(* subdirectories or with different extensions, are both written to         *)
(* output_dir/<stem>.webp; a file already at that path does not make the    *)
(* write fail; and after a run that returned Ok the path holds the          *)
(* conversion of the one the traversal yielded last.                        *)
Colliding(f) == {g \in Images : WebpNamed(g.name) = WebpNamed(f.name)}

---------------------------------------------------------------------------
(* C5: the output mirrors the source tree: a file of a subdirectory of      *)
(* source_dir is written into the same subdirectory of output_dir, so two   *)
(* accepted files of different subdirectories never share an output path.   *)
MirrorsSourceTree ==
    /\ \A i \in Attempts("write") : log[i].path.dir = log[i].src.dir
    /\ \A i, j \in Attempts("write") :
          log[i].src.dir # log[j].src.dir => log[i].path # log[j].path

---------------------------------------------------------------------------
(* C6: one convert_to_webp(path) call, with no convert() before it: when it *)
(* returns Ok it has written exactly one file, output_dir/<stem>.webp, and  *)
(* every other output file is as it was; when it fails at the decode, at    *)
(* the output path or at the directory creation it has written nothing.     *)
StemOf(n) == IF LastDot(n) <= 1 THEN n ELSE SubSeq(n, 1, LastDot(n) - 1)

---------------------------------------------------------------------------
(* C7: when source_dir does not exist convert() returns a traversal error,  *)
(* decodes nothing, writes nothing and leaves output_dir as it was.         *)
MissingSourceFails ==
    call = "convert" /\ ~srcExists =>
        /\ pc = "done" => result = "ErrTraversal"
        /\ seen = <<>>
        /\ log = <<>>
        /\ outFiles = before.files
        /\ outDirExists = before.dir

\* the call returned with source_dir missing and a file in output_dir
MissingSourceFailsWitness ==
    /\ call = "convert"
    /\ ~srcExists
    /\ pc = "done"
    /\ OldPath \in DOMAIN outFiles

---------------------------------------------------------------------------
(* C8: neither convert() nor convert_to_webp() ends in a panic: every       *)
(* failure is the Err the call returns.                                     *)
NeverPanics == result # "panic"

---------------------------------------------------------------------------
(* C9: every write of an output file comes right after a successful         *)
(* create_dir_all of its parent in the same convert_to_webp call, so no     *)
(* write is attempted while output_dir is missing; and in a run that        *)
(* returned Ok each accepted source file has exactly one attempted write    *)
(* and nothing else has any.                                                *)
DirectoryBeforeWrite ==
    /\ \A i \in Attempts("write") :
          /\ i > 1
          /\ log[i - 1] = [op |-> "mkdir", src |-> log[i].src,
                           path |-> log[i].path, ok |-> TRUE]
    /\ pc = "encode" => outDirExists
    /\ ConvertReturnedOk =>
          /\ \A f \in Images :
                Cardinality({i \in Attempts("write") : log[i].src = f}) = 1
          /\ Cardinality(Attempts("write")) = Cardinality(Images)

\* a run that returned Ok after two writes, with output_dir missing before it
DirectoryBeforeWriteWitness ==
    /\ ConvertReturnedOk
    /\ ~before.dir
    /\ Cardinality(Attempts("write")) = 2

---------------------------------------------------------------------------
(* C10, as claimed: a regular file is accepted exactly when its name        *)
(* contains a "." and the text after the last ".", lowercased, is one of    *)
(* jpg, jpeg, png, gif.                                                     *)
LastSeen == seen[Len(seen)]

Filtered == seen # <<>> /\ LastSeen.kind = "file"

FilterIsLastDotRule ==
    Filtered =>
        (verdict = "Accepted" <=>
            LastDot(LastSeen.name) > 0 /\ IsImageWord(AfterLastDot(LastSeen.name)))

(* C10, amended: a regular file is accepted exactly when the last "." of    *)
(* its name is not the first character of the name and the text after it,   *)
(* lowercased, is one of jpg, jpeg, png, gif; the filter always gives one   *)
(* of the two outcomes and nothing is attempted for a rejected file.        *)
FilterIsExtensionRule ==
    Filtered =>
        /\ verdict \in {"Accepted", "Rejected"}
        /\ verdict = "Accepted" <=> ImageNamed(LastSeen.name)
        /\ verdict = "Rejected" => \A i \in DOMAIN log : log[i].src # LastSeen

\* the file .pNg was rejected
FilterIsExtensionRuleWitness ==
    /\ Filtered
    /\ LastSeen.name = <<".", "p", "N", "g">>
    /\ verdict = "Rejected"

===========================================================================
